---- MODULE Spec2Model ----
(***************************************************************************)
(* CineRecap AI: the fingerprint-gated session flow and the recap request  *)
(* state machine of src/App.tsx.  The file holds two variants of the       *)
(* component (lines 1-324 and 326-631) that differ in the authorization    *)
(* table, the fingerprint algorithm and the device error text; `variant'   *)
(* selects the build.  The request service is lines 634-680.               *)
(*                                                                         *)
(* JavaScript values are tagged records, strings are TLA+ strings, a text  *)
(* that is scanned character by character (the fingerprint source) is a    *)
(* sequence of one-character strings, and a JSON text is the sequence of   *)
(* its tokens.                                                             *)
(***************************************************************************)
EXTENDS Integers, Sequences, FiniteSets, TLC

VARIABLES variant, env, storage, user, loginForm, authError, currentDeviceId,
          status, error, recap, formData, pending, last

\* `last' is a history variable, not program state: the handler that produced
\* the current state and what it read (the persisted text found on load, the
\* status a submit was taken from, the outcome of the external call)
vars == <<variant, env, storage, user, loginForm, authError, currentDeviceId,
          status, error, recap, formData, pending, last>>

(* ----------------------------- bounds ---------------------------------- *)

\* at most this many recap requests are outstanding at once in the model
MaxPending == 2

(* ------------------------- JavaScript values --------------------------- *)

Null == [type |-> "null"]

Str(s) == [type |-> "string", val |-> s]

Obj(fields) == [type |-> "object", val |-> fields]

Arr(items) == [type |-> "array", val |-> items]

\* JavaScript truthiness of a value: null and the empty string are falsy
Truthy(v) == ~(v = Null \/ v = Str(""))

(* ------------------------------ types.ts ------------------------------- *)

IDLE == "IDLE"

GENERATING == "GENERATING"

COMPLETED == "COMPLETED"

ERROR == "ERROR"

AppStatus == {IDLE, GENERATING, COMPLETED, ERROR}

\* a User object {username, deviceId}
User(username, deviceId) ==
    Obj([username |-> Str(username), deviceId |-> Str(deviceId)])

(* ------------------------- characters and btoa ------------------------- *)

\* printable ASCII, code 32 at index 1 (codes 34, 92 and 96 are spelled out)
Ascii ==
    <<" ", "!", "QUOTE", "#", "$", "%", "&", "'", "(", ")", "*", "+", ",", "-",
      ".", "/", "0", "1", "2", "3", "4", "5", "6", "7", "8", "9", ":", ";",
      "<", "=", ">", "?", "@", "A", "B", "C", "D", "E", "F", "G", "H", "I",
      "J", "K", "L", "M", "N", "O", "P", "Q", "R", "S", "T", "U", "V", "W",
      "X", "Y", "Z", "[", "BACKSLASH", "]", "^", "_", "BACKTICK", "a", "b", "c",
      "d", "e", "f", "g", "h", "i", "j", "k", "l", "m", "n", "o", "p", "q", "r", "s",
      "t", "u", "v", "w", "x", "y", "z", "{", "|", "}", "~">>

\* a character outside Latin-1 (U+2014, an em dash), which btoa rejects
EmDash == "U+2014"

CharCode(c) ==
    IF c = EmDash THEN 8212
    ELSE 31 + (CHOOSE i \in 1..Len(Ascii) : Ascii[i] = c)

B64Alphabet ==
    <<"A", "B", "C", "D", "E", "F", "G", "H", "I", "J", "K", "L", "M", "N",
      "O", "P", "Q", "R", "S", "T", "U", "V", "W", "X", "Y", "Z", "a", "b",
      "c", "d", "e", "f", "g", "h", "i", "j", "k", "l", "m", "n", "o", "p",
      "q", "r", "s", "t", "u", "v", "w", "x", "y", "z", "0", "1", "2", "3",
      "4", "5", "6", "7", "8", "9", "+", "/">>

B64Char(n) == B64Alphabet[n + 1]

\* base64 of a sequence of bytes (0..255), with = padding
RECURSIVE Base64(_)
Base64(bytes) ==
    IF Len(bytes) = 0 THEN <<>>
    ELSE IF Len(bytes) = 1 THEN
        <<B64Char(bytes[1] \div 4), B64Char((bytes[1] % 4) * 16), "=", "=">>
    ELSE IF Len(bytes) = 2 THEN
        <<B64Char(bytes[1] \div 4),
          B64Char((bytes[1] % 4) * 16 + bytes[2] \div 16),
          B64Char((bytes[2] % 16) * 4), "=">>
    ELSE
        <<B64Char(bytes[1] \div 4),
          B64Char((bytes[1] % 4) * 16 + bytes[2] \div 16),
          B64Char((bytes[2] % 16) * 4 + bytes[3] \div 64),
          B64Char(bytes[3] % 64)>>
        \o Base64(SubSeq(bytes, 4, Len(bytes)))

\* btoa throws InvalidCharacterError on a code unit above 255
BtoaThrows(chars) == \E i \in 1..Len(chars) : CharCode(chars[i]) > 255

Btoa(chars) == Base64([i \in 1..Len(chars) |-> CharCode(chars[i])])

\* the JavaScript string made of a sequence of characters
RECURSIVE Concat(_)
Concat(chars) ==
    IF Len(chars) = 0 THEN "" ELSE Head(chars) \o Concat(Tail(chars))

\* String(n) of an integer, as characters
RECURSIVE Digits(_)
Digits(n) ==
    IF n < 0 THEN <<"-">> \o Digits(0 - n)
    ELSE IF n < 10 THEN <<Ascii[17 + n]>>
    ELSE Digits(n \div 10) \o <<Ascii[17 + (n % 10)]>>

\* Array.prototype.join('|') over parts that are already strings
RECURSIVE JoinBar(_)
JoinBar(parts) ==
    IF Len(parts) = 0 THEN <<>>
    ELSE IF Len(parts) = 1 THEN parts[1]
    ELSE parts[1] \o <<"|">> \o JoinBar(Tail(parts))

IsLetter(c) == (CharCode(c) >= 65 /\ CharCode(c) <= 90)
               \/ (CharCode(c) >= 97 /\ CharCode(c) <= 122)

\* String.prototype.toUpperCase on ASCII
ToUpperCase(chars) ==
    [i \in 1..Len(chars) |->
        IF CharCode(chars[i]) >= 97 /\ CharCode(chars[i]) <= 122
        THEN Ascii[CharCode(chars[i]) - 32 - 31] ELSE chars[i]]

\* replace(/[^a-zA-Z0-0]/g, ''): keeps the letters and the digit 0 only
StripNonId(chars) == SelectSeq(chars, LAMBDA c : IsLetter(c) \/ c = "0")

\* slice(-n)
SliceLast(chars, n) ==
    IF Len(chars) <= n THEN chars
    ELSE SubSeq(chars, Len(chars) - n + 1, Len(chars))

\* slice(0, n)
SliceFirst(chars, n) ==
    IF Len(chars) <= n THEN chars ELSE SubSeq(chars, 1, n)

(* --------------------------- the environment --------------------------- *)

\* window.navigator / window.screen / Date attributes read by the fingerprint
FirefoxEnv ==
    [userAgent |->
        <<"M", "o", "z", "i", "l", "l", "a", "/", "5", ".", "0", " ", "(",
          "X", "1", "1", ";", " ", "L", "i", "n", "u", "x", " ", "x", "8",
          "6", "_", "6", "4", ";", " ", "r", "v", ":", "1", "0", "9", ".",
          "0", ")", " ", "G", "e", "c", "k", "o", "/", "2", "0", "1", "0",
          "0", "1", "0", "1", " ", "F", "i", "r", "e", "f", "o", "x", "/",
          "1", "1", "5", ".", "0">>,
     platform |-> <<"L", "i", "n", "u", "x", " ", "x", "8", "6", "_", "6", "4">>,
     hardwareConcurrency |-> 8,
     width |-> 1920, height |-> 1080, availWidth |-> 1920, availHeight |-> 1053,
     timezoneOffset |-> -60,
     language |-> <<"e", "n", "-", "U", "S">>,
     colorDepth |-> 24,
     chrome |-> FALSE]

\* an old Presto Opera: no hardwareConcurrency (modelled as 0, which is falsy)
OperaEnv ==
    [userAgent |->
        <<"O", "p", "e", "r", "a", "/", "9", ".", "8", "0", " ", "(", "X",
          "1", "1", ";", " ", "L", "i", "n", "u", "x", " ", "x", "8", "6",
          "_", "6", "4", ")", " ", "P", "r", "e", "s", "t", "o", "/", "2",
          ".", "1", "2", ".", "3", "8", "8", " ", "V", "e", "r", "s", "i",
          "o", "n", "/", "1", "2", ".", "1", "6">>,
     platform |-> <<"L", "i", "n", "u", "x", " ", "x", "8", "6", "_", "6", "4">>,
     hardwareConcurrency |-> 0,
     width |-> 1920, height |-> 1080, availWidth |-> 1920, availHeight |-> 1053,
     timezoneOffset |-> -60,
     language |-> <<"e", "n", "-", "U", "S">>,
     colorDepth |-> 24,
     chrome |-> FALSE]

\* a kiosk browser whose user agent holds a character outside Latin-1
KioskEnv ==
    [userAgent |->
        <<"M", "o", "z", "i", "l", "l", "a", "/", "5", ".", "0", " ", "(",
          "X", "1", "1", ";", " ", "L", "i", "n", "u", "x", " ", "x", "8",
          "6", "_", "6", "4", ")", " ", "K", "i", "o", "s", "k", EmDash,
          "B", "r", "o", "w", "s", "e", "r", "/", "2", ".", "0">>,
     platform |-> <<"L", "i", "n", "u", "x", " ", "x", "8", "6", "_", "6", "4">>,
     hardwareConcurrency |-> 4,
     width |-> 1280, height |-> 720, availWidth |-> 1280, availHeight |-> 720,
     timezoneOffset |-> 300,
     language |-> <<"d", "e">>,
     colorDepth |-> 30,
     chrome |-> TRUE]

\* the state holds the name of the environment the page was loaded in
Envs == {"firefox", "opera", "kiosk"}

Environment(name) ==
    CASE name = "firefox" -> FirefoxEnv
      [] name = "opera" -> OperaEnv
      [] name = "kiosk" -> KioskEnv

(* ------------------------- getDeviceFingerprint ------------------------ *)

\* variant 1 (lines 30-38): the joined attribute string
IdString1(e) ==
    JoinBar(<<e.userAgent,
              e.platform,
              IF e.hardwareConcurrency # 0 THEN Digits(e.hardwareConcurrency)
              ELSE <<"u", "n", "k", "n", "o", "w", "n">>,
              Digits(e.width) \o <<"x">> \o Digits(e.height),
              Digits(e.availWidth) \o <<"x">> \o Digits(e.availHeight),
              Digits(e.timezoneOffset),
              <<"v", "1">>>>)

\* variant 2 (lines 360-367)
IdString2(e) ==
    JoinBar(<<e.userAgent,
              e.language,
              Digits(e.colorDepth),
              Digits(e.width) \o <<"x">> \o Digits(e.height),
              Digits(e.timezoneOffset),
              IF e.chrome THEN <<"t", "r", "u", "e">>
              ELSE <<"f", "a", "l", "s", "e">>>>)

\* variant 1 (lines 27-46)
GetDeviceFingerprint1(e) ==
    IF BtoaThrows(IdString1(e)) THEN "ERR-DEVICE-ID"
    ELSE Concat(ToUpperCase(SliceLast(StripNonId(Btoa(IdString1(e))), 12)))

\* variant 2 (lines 357-374)
GetDeviceFingerprint2(e) ==
    IF BtoaThrows(IdString2(e)) THEN "UNKNOWN-DEVICE"
    ELSE Concat(SliceFirst(Btoa(IdString2(e)), 16))

\* the fingerprint of every build in every environment, evaluated once
FingerprintOf ==
    [v \in {1, 2} |->
        [name \in Envs |->
            IF v = 1 THEN GetDeviceFingerprint1(Environment(name))
            ELSE GetDeviceFingerprint2(Environment(name))]]

getDeviceFingerprint(v, name) == FingerprintOf[v][name]

(* --------------------------- AUTHORIZED_USERS -------------------------- *)

Undefined == [type |-> "undefined"]

\* variant 1 (lines 13-22)
AUTHORIZED_USERS_1 ==
    [admin |-> Obj([pass |-> Str("0000"), deviceIds |-> Arr(<<>>)]),
     editor |-> Obj([pass |-> Str("recap2025"), deviceIds |-> Arr(<<>>)])]

\* variant 2 (lines 338-347); the second key of the table is 'demo-user'
AUTHORIZED_USERS_2 ==
    ("admin" :> Obj([pass |-> Str("0000"),
                     deviceIds |-> Arr(<<Str("TW96aWxsYS81LjAg"),
                                         Str("REVCVUctREVWSUNFLTI=")>>)]))
    @@ ("demo-user" :> Obj([pass |-> Str("moviepass123"),
                            deviceIds |-> Arr(<<>>)]))

AUTHORIZED_USERS(v) == IF v = 1 THEN AUTHORIZED_USERS_1 ELSE AUTHORIZED_USERS_2

\* property names every object literal inherits from Object.prototype
InheritedNames == {"constructor", "toString", "valueOf", "hasOwnProperty"}

\* AUTHORIZED_USERS[username]: an own entry, an inherited member (an object
\* or function without `pass' and `deviceIds'), or undefined
Lookup(v, username) ==
    IF username \in DOMAIN AUTHORIZED_USERS(v) THEN AUTHORIZED_USERS(v)[username]
    ELSE IF username \in InheritedNames THEN Obj(<<>>)
    ELSE Undefined

\* o.key for an object value
Get(o, key) == IF key \in DOMAIN o.val THEN o.val[key] ELSE Undefined

\* Array.prototype.includes
Includes(arr, v) == \E i \in 1..Len(arr.val) : arr.val[i] = v

(* --------------------------------- JSON -------------------------------- *)

\* A JSON text is the sequence of its tokens.
Tok(t) == [t |-> t]

StrTok(s) == [t |-> "string", val |-> s]

\* a token that is no JSON token (prose, markdown fences, ...)
WordTok(s) == [t |-> "word", val |-> s]

\* the keys of the objects the program serialises, in insertion order
KeyOrder == <<"username", "deviceId">>

RECURSIVE Stringify(_)
RECURSIVE StringifyMembers(_, _)
StringifyMembers(o, keys) ==
    IF Len(keys) = 0 THEN <<>>
    ELSE <<StrTok(Head(keys)), Tok(":")>> \o Stringify(o.val[Head(keys)])
         \o (IF Len(keys) > 1 THEN <<Tok(",")>> ELSE <<>>)
         \o StringifyMembers(o, Tail(keys))

\* JSON.stringify
Stringify(v) ==
    CASE v.type = "null" -> <<Tok("null")>>
      [] v.type = "string" -> <<StrTok(v.val)>>
      [] v.type = "object" ->
            <<Tok("{")>>
            \o StringifyMembers(v, SelectSeq(KeyOrder, LAMBDA k : k \in DOMAIN v.val))
            \o <<Tok("}")>>

SyntaxError == [ok |-> FALSE]

Parsed(v, next) == [ok |-> TRUE, val |-> v, next |-> next]

RECURSIVE ParseValue(_, _)
RECURSIVE ParseMembers(_, _, _)
RECURSIVE ParseElements(_, _, _)

\* members of an object from position i on (a key is expected at i)
ParseMembers(toks, i, acc) ==
    IF i + 1 > Len(toks) \/ toks[i].t # "string" \/ toks[i + 1].t # ":"
    THEN SyntaxError
    ELSE LET r == ParseValue(toks, i + 2) IN
         IF ~r.ok THEN SyntaxError
         ELSE LET acc2 == (toks[i].val :> r.val) @@ acc IN
              IF r.next > Len(toks) THEN SyntaxError
              ELSE IF toks[r.next].t = "}" THEN Parsed(Obj(acc2), r.next + 1)
              ELSE IF toks[r.next].t = "," THEN ParseMembers(toks, r.next + 1, acc2)
              ELSE SyntaxError

\* elements of an array from position i on (a value is expected at i)
ParseElements(toks, i, acc) ==
    LET r == ParseValue(toks, i) IN
    IF ~r.ok THEN SyntaxError
    ELSE IF r.next > Len(toks) THEN SyntaxError
    ELSE IF toks[r.next].t = "]" THEN Parsed(Arr(Append(acc, r.val)), r.next + 1)
    ELSE IF toks[r.next].t = "," THEN ParseElements(toks, r.next + 1, Append(acc, r.val))
    ELSE SyntaxError

ParseValue(toks, i) ==
    IF i > Len(toks) THEN SyntaxError
    ELSE CASE toks[i].t = "null" -> Parsed(Null, i + 1)
           [] toks[i].t = "string" -> Parsed(Str(toks[i].val), i + 1)
           [] toks[i].t = "{" ->
                IF i + 1 <= Len(toks) /\ toks[i + 1].t = "}"
                THEN Parsed(Obj(<<>>), i + 2)
                ELSE ParseMembers(toks, i + 1, <<>>)
           [] toks[i].t = "[" ->
                IF i + 1 <= Len(toks) /\ toks[i + 1].t = "]"
                THEN Parsed(Arr(<<>>), i + 2)
                ELSE ParseElements(toks, i + 1, <<>>)
           [] OTHER -> SyntaxError

\* JSON.parse: the value, or a SyntaxError when the text is not one JSON value
JSONParse(toks) ==
    LET r == ParseValue(toks, 1) IN
    IF r.ok /\ r.next = Len(toks) + 1 THEN [ok |-> TRUE, val |-> r.val]
    ELSE SyntaxError

(* ----------------------------- localStorage ---------------------------- *)

StorageKey == "cinerecap_user"

\* mutant: the session is read under another key than it is written
GetItem_WrongKey(store, key) ==
    IF "user" \in DOMAIN store THEN [found |-> TRUE, text |-> store["user"]]
    ELSE [found |-> FALSE]

\* localStorage.getItem: the stored text, or null
GetItem(store, key) == IF key \in DOMAIN store THEN [found |-> TRUE, text |-> store[key]]
                       ELSE [found |-> FALSE]

\* mutant: the session is written under another key than it is read
SetItem_WrongKey(store, key, text) == ("user" :> text) @@ store

\* localStorage.setItem
SetItem(store, key, text) == (key :> text) @@ store

\* mutant: nothing is removed
RemoveItem_Noop(store, key) == store

\* localStorage.removeItem
RemoveItem(store, key) == [k \in DOMAIN store \ {key} |-> store[k]]

(* ------------------------------ inputs --------------------------------- *)

\* what can be typed into the login form
Usernames == {"admin", "editor", "demo-user", "constructor"}

Passwords == {"0000", "recap2025", "moviepass123"}

\* what can be typed into the title field
Titles == {"", "Inception"}

\* the initial formData (lines 60-68)
InitialFormData ==
    [title |-> "", genre |-> "", director |-> "", keyPlotPoints |-> "",
     tone |-> "Dramatic", includeSpoilers |-> FALSE, length |-> "medium"]

EmptyLoginForm == [username |-> "", password |-> ""]

\* two schema-conformant response texts
RecapText(tagline) ==
    <<Tok("{"),
      StrTok("tagline"), Tok(":"), StrTok(tagline), Tok(","),
      StrTok("summary"), Tok(":"), StrTok("A thief enters dreams."), Tok(","),
      StrTok("characterAnalysis"), Tok(":"), StrTok("Cobb is haunted."), Tok(","),
      StrTok("keyTakeaways"), Tok(":"),
          Tok("["), StrTok("Dreams"), Tok(","), StrTok("Guilt"), Tok("]"), Tok(","),
      StrTok("verdict"), Tok(":"), StrTok("Must watch."),
      Tok("}")>>

ValidTexts == {RecapText("Your mind is the scene of the crime."),
               RecapText("Dream bigger.")}

\* a text cut off in the middle of the object
TruncatedText ==
    <<Tok("{"), StrTok("tagline"), Tok(":"), StrTok("Dream bigger."), Tok(",")>>

ProseText == <<WordTok("Sorry"), WordTok("I"), WordTok("cannot")>>

\* what generateContent can resolve with: response.text is undefined, empty,
\* prose, truncated JSON, the JSON literal null, or a conformant object
Responses ==
    {[hasText |-> FALSE, text |-> <<>>]}
    \cup {[hasText |-> TRUE, text |-> t] :
             t \in {<<>>, ProseText, TruncatedText, <<Tok("null")>>} \cup ValidTexts}

\* what generateContent can reject with: an Error with or without a message
Rejections == {[message |-> "Failed to fetch"], [message |-> ""]}

(* --------------------------- startup effect ---------------------------- *)

\* mutant: the saved session is restored without comparing fingerprints
StartupEffect_NoDeviceCheck(v, e, store) ==
    LET fingerprint == getDeviceFingerprint(v, e)
        savedUser == GetItem(store, StorageKey)
    IN  IF savedUser.found /\ Len(savedUser.text) > 0
        THEN LET parsedUser == JSONParse(savedUser.text) IN
             IF ~parsedUser.ok \/ parsedUser.val.type # "object"
             THEN [currentDeviceId |-> fingerprint, user |-> Null, storage |-> store]
             ELSE [currentDeviceId |-> fingerprint, user |-> parsedUser.val,
                   storage |-> store]
        ELSE [currentDeviceId |-> fingerprint, user |-> Null, storage |-> store]

\* useEffect(..., []) (lines 70-83, 399-413) run on the state after useState:
\* the fingerprint, the user to set and the storage it leaves
StartupEffect(v, e, store) ==
    LET fingerprint == getDeviceFingerprint(v, e)
        savedUser == GetItem(store, StorageKey)
    IN  IF savedUser.found /\ Len(savedUser.text) > 0
        THEN LET parsedUser == JSONParse(savedUser.text) IN
             IF ~parsedUser.ok \/ parsedUser.val.type # "object"
             THEN \* JSON.parse or the property read throws: the effect stops
                  [currentDeviceId |-> fingerprint, user |-> Null, storage |-> store]
             ELSE IF Get(parsedUser.val, "deviceId") = Str(fingerprint)
             THEN [currentDeviceId |-> fingerprint, user |-> parsedUser.val,
                   storage |-> store]
             ELSE [currentDeviceId |-> fingerprint, user |-> Null,
                   storage |-> RemoveItem(store, StorageKey)]
        ELSE [currentDeviceId |-> fingerprint, user |-> Null, storage |-> store]

\* mounting App in environment e over the persisted store: the useState
\* initial values (lines 50-68) followed by the startup effect
Mount(v, e, store) ==
    LET eff == StartupEffect(v, e, store) IN
    /\ variant' = v
    /\ env' = e
    /\ storage' = eff.storage
    /\ user' = eff.user
    /\ currentDeviceId' = eff.currentDeviceId
    /\ loginForm' = EmptyLoginForm
    /\ authError' = Null
    /\ status' = IDLE
    /\ error' = Null
    /\ recap' = Null
    /\ formData' = InitialFormData
    /\ pending' = <<>>
    /\ last' = [op |-> "load", saved |-> GetItem(store, StorageKey)]

\* first load of the page: an empty store, any build, any environment
Init ==
    /\ variant \in {1, 2}
    /\ env \in Envs
    /\ storage = <<>>
    /\ user = Null
    /\ currentDeviceId = getDeviceFingerprint(variant, env)
    /\ loginForm = EmptyLoginForm
    /\ authError = Null
    /\ status = IDLE
    /\ error = Null
    /\ recap = Null
    /\ formData = InitialFormData
    /\ pending = <<>>
    /\ last = [op |-> "load", saved |-> GetItem(<<>>, StorageKey)]

\* the page is loaded again, possibly in a changed environment; requests of
\* the old page are gone with it
Reload ==
    \E e \in Envs : Mount(variant, e, storage)

(* ------------------------------ handlers ------------------------------- *)

InvalidCredentials == "Invalid username or password."

\* mutant: the device message names the user but not the device
DeviceNotAuthorized_NoId(v, deviceId, username) ==
    IF v = 1
    THEN "ACCESS DENIED: This device is not registered for user \"" \o username \o "\"."
    ELSE "Unauthorized Device. Please contact the admin."

\* the template literals of lines 99 and 429
DeviceNotAuthorized(v, deviceId, username) ==
    IF v = 1
    THEN "ACCESS DENIED: This device (" \o deviceId
         \o ") is not registered for user \"" \o username \o "\"."
    ELSE "Unauthorized Device. Please provide this ID to the admin to add it to your account: "
         \o deviceId

\* mutant: an unknown username and a wrong password are told apart
LoginResult_RevealsField(v, form, deviceId) ==
    LET config == Lookup(v, form.username) IN
    IF config = Undefined
    THEN [ok |-> FALSE, authError |-> Str("Unknown username.")]
    ELSE IF Get(config, "pass") # Str(form.password)
    THEN [ok |-> FALSE, authError |-> Str("Wrong password.")]
    ELSE IF ~Includes(Get(config, "deviceIds"), Str(deviceId))
    THEN [ok |-> FALSE,
          authError |-> Str(DeviceNotAuthorized(v, deviceId, form.username))]
    ELSE [ok |-> TRUE, authError |-> Null,
          newUser |-> User(form.username, deviceId)]

\* mutant: the device allow-list is not consulted
LoginResult_NoDeviceCheck(v, form, deviceId) ==
    LET config == Lookup(v, form.username) IN
    IF config = Undefined \/ Get(config, "pass") # Str(form.password)
    THEN [ok |-> FALSE, authError |-> Str(InvalidCredentials)]
    ELSE [ok |-> TRUE, authError |-> Null,
          newUser |-> User(form.username, deviceId)]

\* the decisions of handleLogin (lines 89-103, 419-433): the authError it
\* leaves and, on success, the session it creates
LoginResult(v, form, deviceId) ==
    LET config == Lookup(v, form.username) IN
    IF config = Undefined \/ Get(config, "pass") # Str(form.password)
    THEN [ok |-> FALSE, authError |-> Str(InvalidCredentials)]
    ELSE IF ~Includes(Get(config, "deviceIds"), Str(deviceId))
    THEN [ok |-> FALSE,
          authError |-> Str(DeviceNotAuthorized(v, deviceId, form.username))]
    ELSE [ok |-> TRUE, authError |-> Null,
          newUser |-> User(form.username, deviceId)]

\* onChange of the username field (lines 179, 511), on the login screen
SetUsername ==
    /\ user = Null
    /\ \E u \in Usernames : loginForm' = [loginForm EXCEPT !.username = u]
    /\ UNCHANGED <<variant, env, storage, user, authError, currentDeviceId,
                   status, error, recap, formData, pending>>
    /\ last' = [op |-> "SetUsername"]

\* onChange of the password field (lines 190, 522)
SetPassword ==
    /\ user = Null
    /\ \E p \in Passwords : loginForm' = [loginForm EXCEPT !.password = p]
    /\ UNCHANGED <<variant, env, storage, user, authError, currentDeviceId,
                   status, error, recap, formData, pending>>
    /\ last' = [op |-> "SetPassword"]

\* handleLogin (lines 85-106, 415-436); the form is rendered only while user
\* is null and both fields are `required'
handleLogin ==
    /\ user = Null
    /\ loginForm.username # ""
    /\ loginForm.password # ""
    /\ LET r == LoginResult(variant, loginForm, currentDeviceId) IN
       /\ authError' = r.authError
       /\ IF r.ok
          THEN /\ user' = r.newUser
               /\ storage' = SetItem(storage, StorageKey, Stringify(r.newUser))
          ELSE UNCHANGED <<user, storage>>
    /\ UNCHANGED <<variant, env, loginForm, currentDeviceId, status, error,
                   recap, formData, pending>>
    /\ last' = [op |-> "handleLogin"]

\* mutant: the session is dropped but the recap panel state is left alone
handleLogout_KeepsRecap ==
    /\ user # Null
    /\ storage' = RemoveItem(storage, StorageKey)
    /\ user' = Null
    /\ loginForm' = EmptyLoginForm
    /\ UNCHANGED <<variant, env, authError, currentDeviceId, error, formData,
                   pending, recap, status>>
    /\ last' = [op |-> "handleLogout"]

\* handleLogout (lines 108-114, 438-444); the button is in the logged-in view
handleLogout ==
    /\ user # Null
    /\ storage' = RemoveItem(storage, StorageKey)
    /\ user' = Null
    /\ recap' = Null
    /\ status' = IDLE
    /\ loginForm' = EmptyLoginForm
    /\ UNCHANGED <<variant, env, authError, currentDeviceId, error, formData,
                   pending>>
    /\ last' = [op |-> "handleLogout"]

\* onChange of the title field (lines 240, 572)
SetTitle ==
    /\ user # Null
    /\ \E t \in Titles : formData' = [formData EXCEPT !.title = t]
    /\ UNCHANGED <<variant, env, storage, user, loginForm, authError,
                   currentDeviceId, status, error, recap, pending>>
    /\ last' = [op |-> "SetTitle"]

\* mutant: the button is enabled in the IDLE state only
handleSubmit_OnlyFromIdle ==
    /\ user # Null
    /\ status = IDLE
    /\ formData.title # ""
    /\ Len(pending) < MaxPending
    /\ status' = GENERATING
    /\ error' = Null
    /\ pending' = Append(pending, formData)
    /\ UNCHANGED <<variant, env, storage, user, loginForm, authError,
                   currentDeviceId, recap, formData>>
    /\ last' = [op |-> "handleSubmit", from |-> status]

\* handleSubmit up to its await (lines 121-129, 451-459): the form is in the
\* logged-in view, its button is disabled while GENERATING (lines 256, 588),
\* and an empty title returns early; the call of generateMovieRecap issues
\* the request
handleSubmit ==
    /\ user # Null
    /\ status # GENERATING
    /\ formData.title # ""
    /\ Len(pending) < MaxPending
    /\ status' = GENERATING
    /\ error' = Null
    /\ pending' = Append(pending, formData)
    /\ UNCHANGED <<variant, env, storage, user, loginForm, authError,
                   currentDeviceId, recap, formData>>
    /\ last' = [op |-> "handleSubmit", from |-> status]

\* mutant: a text that does not parse is returned as a null recap
RecapOfResponse_SwallowsParseError(response) ==
    IF ~response.hasText \/ Len(response.text) = 0
    THEN [ok |-> FALSE, err |-> [message |-> "No response from AI"]]
    ELSE LET r == JSONParse(response.text) IN
         IF r.ok THEN [ok |-> TRUE, val |-> r.val]
         ELSE [ok |-> TRUE, val |-> Null]

\* generateMovieRecap after its await, on a resolved call (lines 676-679):
\* the value it returns or the Error it throws
RecapOfResponse(response) ==
    IF ~response.hasText \/ Len(response.text) = 0
    THEN [ok |-> FALSE, err |-> [message |-> "No response from AI"]]
    ELSE LET r == JSONParse(response.text) IN
         IF r.ok THEN [ok |-> TRUE, val |-> r.val]
         ELSE [ok |-> FALSE, err |-> [message |-> "Unexpected token in JSON"]]

\* mutant: the message is shown as it is, without the fallback
ErrorMessage_NoFallback(err) == err.message

\* err.message || 'Failed to generate recap.' (lines 133, 463)
ErrorMessage(err) ==
    IF err.message # "" THEN err.message ELSE "Failed to generate recap."

Remove(seq, i) == SubSeq(seq, 1, i - 1) \o SubSeq(seq, i + 1, Len(seq))

\* mutant: the catch block reports the error but marks the request COMPLETED
Continue_AlwaysCompleted(i, r) ==
    /\ pending' = Remove(pending, i)
    /\ status' = COMPLETED
    /\ IF r.ok
       THEN recap' = r.val /\ UNCHANGED error
       ELSE error' = Str(ErrorMessage(r.err)) /\ UNCHANGED recap
    /\ UNCHANGED <<variant, env, storage, user, loginForm, authError,
                   currentDeviceId, formData>>

\* mutant: the result is not stored
Continue_NoSetRecap(i, r) ==
    /\ pending' = Remove(pending, i)
    /\ IF r.ok
       THEN status' = COMPLETED /\ UNCHANGED error
       ELSE error' = Str(ErrorMessage(r.err)) /\ status' = ERROR
    /\ UNCHANGED <<variant, env, storage, user, loginForm, authError,
                   currentDeviceId, formData, recap>>

\* mutant: the catch block stores the message and forgets setStatus
Continue_NoErrorStatus(i, r) ==
    /\ pending' = Remove(pending, i)
    /\ IF r.ok
       THEN recap' = r.val /\ status' = COMPLETED /\ UNCHANGED error
       ELSE error' = Str(ErrorMessage(r.err)) /\ UNCHANGED <<recap, status>>
    /\ UNCHANGED <<variant, env, storage, user, loginForm, authError,
                   currentDeviceId, formData>>

\* the continuation of handleSubmit once generateMovieRecap settles with
\* outcome r (lines 129-135, 459-465)
Continue(i, r) ==
    /\ pending' = Remove(pending, i)
    /\ IF r.ok
       THEN /\ recap' = r.val
            /\ status' = COMPLETED
            /\ UNCHANGED error
       ELSE /\ error' = Str(ErrorMessage(r.err))
            /\ status' = ERROR
            /\ UNCHANGED recap
    /\ UNCHANGED <<variant, env, storage, user, loginForm, authError,
                   currentDeviceId, formData>>

\* the external call of an outstanding request resolves with a response
RequestResolves ==
    \E i \in 1..Len(pending) : \E response \in Responses :
        /\ Continue(i, RecapOfResponse(response))
        /\ last' = [op |-> "resolved", request |-> pending[i],
                    response |-> response]

\* the external call of an outstanding request rejects
RequestRejects ==
    \E i \in 1..Len(pending) : \E err \in Rejections :
        /\ Continue(i, [ok |-> FALSE, err |-> err])
        /\ last' = [op |-> "rejected", request |-> pending[i], err |-> err]

\* resetForm (lines 138-141, 468-471); its button is in the panel rendered
\* for COMPLETED with a recap (lines 286-314, 602-621)
resetForm ==
    /\ user # Null
    /\ status = COMPLETED
    /\ Truthy(recap)
    /\ recap' = Null
    /\ status' = IDLE
    /\ UNCHANGED <<variant, env, storage, user, loginForm, authError,
                   currentDeviceId, error, formData, pending>>
    /\ last' = [op |-> "resetForm"]

Next ==
    \/ Reload
    \/ SetUsername
    \/ SetPassword
    \/ handleLogin
    \/ handleLogout
    \/ SetTitle
    \/ handleSubmit
    \/ RequestResolves
    \/ RequestRejects
    \/ resetForm

Spec == Init /\ [][Next]_vars

\* a page load taken while no request is outstanding
ReloadBetweenRequests ==
    /\ pending = <<>>
    /\ Reload

\* the steps of one page as long as the page that issued a request stays
\* open to see it settle
LiveNext ==
    \/ ReloadBetweenRequests
    \/ SetUsername
    \/ SetPassword
    \/ handleLogin
    \/ handleLogout
    \/ SetTitle
    \/ handleSubmit
    \/ RequestResolves
    \/ RequestRejects
    \/ resetForm

\* the external call of an outstanding request eventually resolves or
\* rejects, and the event loop then runs the continuation of handleSubmit
LiveSpec ==
    Init /\ [][LiveNext]_vars /\ WF_vars(RequestResolves \/ RequestRejects)

(* ------------------------- vocabulary of the claims -------------------- *)

\* (username, password) is an exact entry of the table
CredentialsInTable(v, form) ==
    /\ form.username \in DOMAIN AUTHORIZED_USERS(v)
    /\ AUTHORIZED_USERS(v)[form.username].val.pass = Str(form.password)

\* deviceId is in the allow-list of username
DeviceAllowed(v, username, deviceId) ==
    \E i \in 1..Len(AUTHORIZED_USERS(v)[username].val.deviceIds.val) :
        AUTHORIZED_USERS(v)[username].val.deviceIds.val[i] = Str(deviceId)

\* the JSON text {"username":u,"deviceId":d}
UserText(u, d) ==
    <<Tok("{"), StrTok("username"), Tok(":"), StrTok(u), Tok(","),
      StrTok("deviceId"), Tok(":"), StrTok(d), Tok("}")>>

\* the persisted session record, when there is one
HasRecord(store) == StorageKey \in DOMAIN store

\* text is the JSON of a session record, and its deviceId
IsUserText(text) == Len(text) = 9 /\ text = UserText(text[4].val, text[8].val)

TextDeviceId(text) == text[8].val

\* msg holds deviceId between one of the fixed pieces of text around it
MessageFrames ==
    {<<"ACCESS DENIED: This device (",
       ") is not registered for user \"" \o u \o "\".">> : u \in Usernames}
    \cup {<<"Unauthorized Device. Please provide this ID to the admin to add it to your account: ",
            "">>}

ContainsVerbatim(msg, deviceId) ==
    \E f \in MessageFrames : msg = f[1] \o deviceId \o f[2]

\* the responses with no text, an empty text or a text that is not JSON
UnusableResponses ==
    {r \in Responses : ~r.hasText \/ r.text \in {<<>>, ProseText, TruncatedText}}

(* -------------------------------- C1 ----------------------------------- *)

\* C1: a handleLogin with a (username, password) pair that is not an exact
\* entry of AUTHORIZED_USERS leaves authError = 'Invalid username or
\* password.' whether the username is unknown or the password differs,
\* leaves user null and leaves the persisted store as it was.
C1_InvalidCredentialsRejected ==
    [][(last'.op = "handleLogin" /\ ~CredentialsInTable(variant, loginForm))
        => /\ authError' = Str(InvalidCredentials)
           /\ user = Null /\ user' = Null
           /\ storage' = storage]_vars

\* a login of a known username with another user's password has failed
C1_Witness ==
    /\ last.op = "handleLogin"
    /\ loginForm = [username |-> "admin", password |-> "moviepass123"]
    /\ authError = Str(InvalidCredentials)
    /\ user = Null

\* a login of a username that is not in the table has failed
C1_WitnessUnknownUser ==
    /\ last.op = "handleLogin"
    /\ loginForm.username \notin DOMAIN AUTHORIZED_USERS(variant)
    /\ authError = Str(InvalidCredentials)

(* -------------------------------- C2 ----------------------------------- *)

\* C2: a handleLogin with a pair of the table on a device whose fingerprint
\* is not in that user's deviceIds leaves an authError that is a string
\* other than the invalid-credentials one and holds currentDeviceId
\* verbatim; user stays null and the persisted store is as it was.
C2_UnauthorizedDeviceRejected ==
    [][(/\ last'.op = "handleLogin"
        /\ CredentialsInTable(variant, loginForm)
        /\ ~DeviceAllowed(variant, loginForm.username, currentDeviceId))
        => /\ authError'.type = "string"
           /\ authError' # Str(InvalidCredentials)
           /\ ContainsVerbatim(authError'.val, currentDeviceId)
           /\ user = Null /\ user' = Null
           /\ storage' = storage]_vars

\* admin has logged in with the right password from a device not in the list
C2_Witness ==
    /\ last.op = "handleLogin"
    /\ loginForm = [username |-> "admin", password |-> "0000"]
    /\ user = Null
    /\ authError # Null
    /\ authError # Str(InvalidCredentials)

(* -------------------------------- C3 ----------------------------------- *)

\* C3: a load that finds a persisted session record whose deviceId differs
\* from the fingerprint it has just computed removes the record and leaves
\* user null.
C3_StaleSessionDiscarded ==
    [][(/\ last'.op = "load"
        /\ HasRecord(storage)
        /\ IsUserText(storage[StorageKey])
        /\ TextDeviceId(storage[StorageKey]) # currentDeviceId')
        => /\ ~HasRecord(storage')
           /\ user' = Null]_vars

\* a load has found a record written under another fingerprint
C3_Witness ==
    /\ last.op = "load"
    /\ last.saved.found
    /\ TextDeviceId(last.saved.text) # currentDeviceId
    /\ user = Null
    /\ ~HasRecord(storage)

(* -------------------------------- C4 ----------------------------------- *)

\* C4: whenever a user is logged in, user.deviceId is the fingerprint
\* computed at the current page load.
C4_SessionMatchesFingerprint ==
    user # Null => Get(user, "deviceId") = Str(currentDeviceId)

\* a session restored by a load, in the logged-in view
C4_Witness ==
    /\ last.op = "load"
    /\ user # Null
    /\ Get(user, "deviceId") = Str(currentDeviceId)

(* -------------------------------- C5 ----------------------------------- *)

\* C5: at most one call of generateMovieRecap is outstanding at any time.
\* handleLogout puts status back to IDLE while a request is outstanding, so
\* after a new login the submit button is enabled again and a second
\* request joins the first.
C5_AtMostOneInFlight == Len(pending) <= 1

(* -------------------------------- C6 ----------------------------------- *)

\* C6 as stated: within one page load status changes only IDLE -> GENERATING,
\* GENERATING -> COMPLETED, GENERATING -> ERROR and COMPLETED/ERROR -> IDLE.
C6_OnlyFourTransitions ==
    [][(status' # status /\ last'.op # "load")
        => \/ status = IDLE /\ status' = GENERATING
           \/ status = GENERATING /\ status' = COMPLETED
           \/ status = GENERATING /\ status' = ERROR
           \/ status \in {COMPLETED, ERROR} /\ status' = IDLE]_vars

\* C6 amended: status changes only by a submit, from any status but
\* GENERATING to GENERATING; by the success of an outstanding request, to
\* COMPLETED, or its failure, to ERROR, from whatever status holds then; by
\* reset, from COMPLETED to IDLE; and by logout or a page load, from any
\* status to IDLE.
C6_StatusTransitions ==
    [][status' # status
        => \/ /\ last'.op = "handleSubmit"
              /\ status # GENERATING /\ status' = GENERATING
           \/ /\ last'.op = "resolved"
              /\ Len(pending) > 0
              /\ status' = (IF last'.response \notin UnusableResponses
                            THEN COMPLETED ELSE ERROR)
           \/ /\ last'.op = "rejected"
              /\ Len(pending) > 0
              /\ status' = ERROR
           \/ /\ last'.op = "resetForm"
              /\ status = COMPLETED /\ status' = IDLE
           \/ /\ last'.op \in {"handleLogout", "load"}
              /\ status' = IDLE]_vars

\* a request has succeeded after the logout of the session that issued it:
\* COMPLETED entered from IDLE
C6_Witness ==
    /\ last.op = "resolved"
    /\ status = COMPLETED
    /\ user = Null

(* -------------------------------- C7 ----------------------------------- *)

\* C7: when the external call resolves with an empty or unparseable text,
\* status becomes ERROR with an error message, recap is left alone, the
\* request is over and no new one is issued; a request is only ever issued
\* by handleSubmit.
C7_UnusableResponseIsError ==
    [][/\ (last'.op = "resolved" /\ last'.response \in UnusableResponses)
            => /\ status' = ERROR
               /\ error' # Null
               /\ recap' = recap
               /\ Len(pending') = Len(pending) - 1
       /\ Len(pending') > Len(pending) => last'.op = "handleSubmit"]_vars

\* prose came back instead of JSON
C7_Witness ==
    /\ last.op = "resolved"
    /\ last.response.text = ProseText
    /\ status = ERROR
    /\ pending = <<>>

(* -------------------------------- C8 ----------------------------------- *)

Taglines == {"Your mind is the scene of the crime.", "Dream bigger."}

\* the GeneratedRecap that RecapText(tagline) spells
RecapObject(tagline) ==
    Obj([tagline |-> Str(tagline),
         summary |-> Str("A thief enters dreams."),
         characterAnalysis |-> Str("Cobb is haunted."),
         keyTakeaways |-> Arr(<<Str("Dreams"), Str("Guilt")>>),
         verdict |-> Str("Must watch.")])

\* C8: when the request of a submit with a non-empty title resolves with a
\* schema-conformant text, recap becomes the object that text spells, with
\* its five fields, and status becomes COMPLETED.
C8_ConformantResponseIsRecap ==
    [][\A t \in Taglines :
        (/\ last'.op = "resolved"
         /\ last'.response = [hasText |-> TRUE, text |-> RecapText(t)])
        => /\ last'.request.title # ""
           /\ recap' = RecapObject(t)
           /\ status' = COMPLETED]_vars

\* a recap has arrived for the logged-in user
C8_Witness ==
    /\ last.op = "resolved"
    /\ last.request.title = "Inception"
    /\ user # Null
    /\ recap = RecapObject("Dream bigger.")
    /\ status = COMPLETED

(* -------------------------------- C9 ----------------------------------- *)

\* C9: a handleLogin with a pair of the table on an allowed device sets user
\* to {username, deviceId = currentDeviceId} and stores the JSON of that
\* record under 'cinerecap_user'; and whenever a user is logged in, the text
\* stored under that key is the JSON of user.
C9_SessionPersisted ==
    /\ [][(/\ last'.op = "handleLogin"
           /\ CredentialsInTable(variant, loginForm)
           /\ DeviceAllowed(variant, loginForm.username, currentDeviceId))
           => /\ user' = User(loginForm.username, currentDeviceId)
              /\ HasRecord(storage')
              /\ storage'["cinerecap_user"]
                    = UserText(loginForm.username, currentDeviceId)]_vars
    /\ [](user # Null
           => /\ HasRecord(storage)
              /\ storage["cinerecap_user"]
                    = UserText(Get(user, "username").val, Get(user, "deviceId").val))

\* admin has just logged in on an allowed device
C9_Witness ==
    /\ last.op = "handleLogin"
    /\ user = User("admin", currentDeviceId)
    /\ HasRecord(storage)

(* -------------------------------- C10 ---------------------------------- *)

\* C10: a load that finds a persisted record whose deviceId is the
\* fingerprint it has just computed sets user to that record and leaves the
\* store as it was; a load that finds no record leaves user null and the
\* store empty.
C10_SessionRestored ==
    [][last'.op = "load"
        => /\ (/\ HasRecord(storage)
               /\ IsUserText(storage[StorageKey])
               /\ TextDeviceId(storage[StorageKey]) = currentDeviceId')
                => /\ user' = User(storage[StorageKey][4].val, currentDeviceId')
                   /\ storage' = storage
           /\ ~HasRecord(storage)
                => /\ user' = Null
                   /\ ~HasRecord(storage')]_vars

\* a load has found the record of this device and restored it
C10_Witness ==
    /\ last.op = "load"
    /\ last.saved.found
    /\ TextDeviceId(last.saved.text) = currentDeviceId
    /\ user = User("admin", currentDeviceId)
    /\ HasRecord(storage)

(* -------------------------------- C11 ---------------------------------- *)

\* the messages a failed request can carry, and the fallback
FailureMessages ==
    {"No response from AI", "Unexpected token in JSON", "Failed to fetch"}

Fallback == "Failed to generate recap."

\* C11: whenever status is ERROR, error is a non-empty string: the message
\* of a failed request or the fallback; a rejection with a message leaves
\* that message and a rejection without one leaves the fallback.
C11_ErrorStateHasMessage ==
    /\ [](status = ERROR
           => /\ error # Null
              /\ error \in {Str(m) : m \in FailureMessages \cup {Fallback}})
    /\ [][last'.op = "rejected"
           => error' = (IF last'.err.message = "" THEN Str(Fallback)
                        ELSE Str(last'.err.message))]_vars

\* a call has rejected with an Error that has no message
C11_Witness ==
    /\ last.op = "rejected"
    /\ last.err.message = ""
    /\ status = ERROR
    /\ error = Str(Fallback)

(* -------------------------------- C12 ---------------------------------- *)

\* C12: in status ERROR with a logged-in user and a non-empty title the
\* submit is enabled (as long as the model can hold one more request), and
\* a submit taken from ERROR clears error, sets GENERATING and issues
\* exactly one request, for the form as it stands.
C12_RetryFromError ==
    /\ []((/\ status = ERROR
           /\ user # Null
           /\ formData.title # ""
           /\ Len(pending) < MaxPending)
           => ENABLED handleSubmit)
    /\ [][(last'.op = "handleSubmit" /\ status = ERROR)
           => /\ error' = Null
              /\ status' = GENERATING
              /\ pending' = Append(pending, formData)]_vars

\* a submit has been taken from ERROR: the earlier message is gone and the
\* request is the only one outstanding
C12_Witness ==
    /\ last.op = "handleSubmit"
    /\ last.from = ERROR
    /\ status = GENERATING
    /\ error = Null
    /\ Len(pending) = 1

(* -------------------------------- C13 ---------------------------------- *)

\* C13: provided the external call of every outstanding request eventually
\* resolves or rejects, every state with status GENERATING is followed by a
\* state with status COMPLETED or ERROR, whatever the user does meanwhile
\* (reset, logout, login, further submits).
C13_SubmissionSettles ==
    (status = GENERATING) ~> (status \in {COMPLETED, ERROR})

\* the request of a session that has logged out meanwhile has failed
C13_Witness ==
    /\ last.op = "rejected"
    /\ status = ERROR
    /\ user = Null
    /\ pending = <<>>

(* -------------------------------- C15 ---------------------------------- *)

\* C15: whenever no user is logged in, recap is null and status is IDLE.
\* A request that settles after the logout of its session still runs the
\* continuation of handleSubmit, which stores the recap and sets COMPLETED
\* (or sets ERROR) on the login screen; the next login shows that recap.
C15_LoggedOutIsClean ==
    user = Null => (recap = Null /\ status = IDLE)

(* -------------------------------- C16 ---------------------------------- *)

\* C16: from an empty store, whenever a user is logged in, user.username is
\* a key of AUTHORIZED_USERS and user.deviceId is in that user's deviceIds.
C16_SessionIsAuthorized ==
    user # Null
        => /\ Get(user, "username").val \in DOMAIN AUTHORIZED_USERS(variant)
           /\ DeviceAllowed(variant, Get(user, "username").val,
                            Get(user, "deviceId").val)

\* a session of admin restored from the store by a later load
C16_Witness ==
    /\ last.op = "load"
    /\ last.saved.found
    /\ user # Null
    /\ Get(user, "username") = Str("admin")
    /\ Includes(Get(Lookup(variant, "admin"), "deviceIds"), Get(user, "deviceId"))

(* -------------------------------- C17 ---------------------------------- *)

\* C17: whenever status is COMPLETED recap is not null, and whenever status
\* is IDLE recap is null.  The response text `null' is JSON: JSON.parse
\* returns null, generateMovieRecap returns it unchecked and handleSubmit
\* sets COMPLETED with recap null.
C17_CompletedHasRecap ==
    /\ status = COMPLETED => recap # Null
    /\ status = IDLE => recap = Null

(* -------------------------------- C18 ---------------------------------- *)

\* C18: handleLogout removes the persisted record and sets user to null,
\* recap to null, status to IDLE and the login form to empty fields; and
\* whenever nobody is logged in the store holds no record, so a load taken
\* before the next login finds none and leaves user null.
C18_LogoutClearsSession ==
    /\ [][last'.op = "handleLogout"
           => /\ ~HasRecord(storage')
              /\ user' = Null
              /\ recap' = Null
              /\ status' = IDLE
              /\ loginForm' = [username |-> "", password |-> ""]]_vars
    /\ [](user = Null => ~HasRecord(storage))
    /\ [][(last'.op = "load" /\ user = Null)
           => (~last'.saved.found /\ user' = Null)]_vars

\* a logout taken after a title had been typed into the recap form
C18_Witness ==
    /\ last.op = "handleLogout"
    /\ user = Null
    /\ ~HasRecord(storage)
    /\ status = IDLE
    /\ recap = Null
    /\ loginForm = [username |-> "", password |-> ""]
    /\ formData.title = "Inception"

====
